---- MODULE Spec2Model ----
(***************************************************************************)
(* A model of package cogroup (src/cogroup.go): a group of n worker        *)
(* goroutines draining one buffered task channel g.ch, under a context     *)
(* that an external party may cancel.                                      *)
(*                                                                         *)
(* Threads of control in the model:                                        *)
(*   - one controller, which calls start, Wait and Reset one after the     *)
(*     other (cpc is its position inside the current call);                *)
(*   - the callers of Callers, which call TryInsert, Add and Insert;       *)
(*   - one goroutine per detached `go g.Insert(f)` spawned by Add;         *)
(*   - the worker goroutines 0..n-1 running process(i);                    *)
(*   - the owner of the context, who may cancel it once.                   *)
(*                                                                         *)
(* Go's select is modelled by what it does: a case is ready when its       *)
(* channel operation can proceed (a send on a closed channel "proceeds"    *)
(* by panicking), one ready case is chosen nondeterministically, default   *)
(* is taken only when no case is ready, and a select without default       *)
(* waits until a case is ready.  A goroutine parked inside a select and a  *)
(* goroutine that has not yet run its select are the same model state:     *)
(* every outcome of the first is an outcome of the second.                 *)
(*                                                                         *)
(* A panic nobody recovers ends the Go process: it is recorded in fault    *)
(* and no action is enabled afterwards.                                    *)
(*                                                                         *)
(* Use of the API assumed of the controller: start runs once (Start, or    *)
(* New followed by StartWithWorker), and Wait and Reset are called after   *)
(* it has returned.  Callers may call the admission operations at any      *)
(* time from New on.  The channel is buffered (m >= 1).                    *)
(***************************************************************************)
EXTENDS Integers, Sequences, FiniteSets, TLC

\* The parameters n and m of New(ctx, n, m, sink), and the bounds on what the
\* environment does.
NWorkers == 2        \* n: the number of workers to spawn
Capacity == 2        \* m: the buffer size of g.ch (m >= 1 in the model)
MaxTasks == 4        \* admission calls made over a run (each with a fresh task)
MaxResets == 1       \* Reset calls that reach their make(chan ...)

Workers == 0 .. NWorkers - 1
Tasks == 1 .. MaxTasks
Callers == {"a", "b"}

VARIABLES
  ch,         \* g.ch: [buf: the queued tasks in order, closed: close(g.ch) done]
  epoch,      \* which channel object g.ch is: 1 the one of New, +1 per Reset
  cancelled,  \* g.ctx.Done() is closed
  wg,         \* g.wg: the WaitGroup counter
  wpc,        \* position of process(i): "idle" (not spawned), "check" (outer
              \* select), "recv" (inner select), "run" (inside g.worker), "done"
  wtask,      \* the task f that process(i) holds while wpc[i] = "run" (else 0)
  wid,        \* the parameter i that the goroutine in slot k was spawned with
  wctx,       \* the context that run passed to the task body now executing
  cpc,        \* position of the controller: "start", "idle", "wg",
              \* "len", "make"
  cop,        \* the public call the controller is inside: "none", "Wait", "Reset"
  si,         \* loop variable i of start(n)
  ret,        \* the value returned by the last Wait on the channel g.ch (-1: none)
  fault,      \* "none", or the operation whose panic nobody recovered
  nextTask,   \* the next fresh task
  tasks,      \* history of each task, see NewTask
  busy,       \* busy[p]: the task of the Insert call that caller p is inside (else 0)
  snap,       \* what the cancellation found, see Snapshot
  late        \* late[i]: the tasks process(i) received after the cancellation

vars == <<ch, epoch, cancelled, wg, wpc, wtask, wid, wctx, cpc, cop, si, ret, fault,
          nextTask, tasks, busy, snap, late>>

\* st: "new" (not submitted yet); "select" (an Insert that has not completed
\*     its select: called by a caller, or detached by Add); "true" (success:
\*     placed in the queue); "false" (not placed: default taken, panic
\*     recovered, or Done taken)
\* det: the task was handed to a detached `go g.Insert(f)` by Add
\* sub: the epoch of g.ch when the admission call began (0: not submitted)
\* placed: the epoch of the channel the task was placed in (0: not placed)
\* at: the number of the next admission call when the task was placed, so
\*     that the calls u >= at began after the task was in the queue (0: not placed)
\* deq, fin: how many times the task was received by a worker, and returned
NewTask ==
  [st |-> "new", det |-> FALSE, sub |-> 0, placed |-> 0, at |-> 0, deq |-> 0, fin |-> 0]

Crashed == fault # "none"

----------------------------------------------------------------------------
\* Channel operations (Go runtime semantics of a buffered channel)

\* make(chan func(context.Context) error, m)
MakeChan == [buf |-> <<>>, closed |-> FALSE]

\* SendReady without the runtime's closed check: a send into a closed
\* channel with room places the task.
SendReadyIgnoringClose(c) == Len(c.buf) < Capacity

\* `case g.ch <- f` can proceed by placing f: the channel is open with room
SendReady(c) == ~c.closed /\ Len(c.buf) < Capacity

\* `case g.ch <- f` proceeds by panicking: send on closed channel
SendPanics(c) == c.closed

\* A send that puts the task at the head of the queue (a stack).
SendFront(c, t) == [c EXCEPT !.buf = <<t>> \o @]

\* the channel after `g.ch <- f`
Send(c, t) == [c EXCEPT !.buf = Append(@, t)]

\* `case f, ok := <-g.ch` can proceed: a task is buffered, or closed (ok = false)
RecvReady(c) == Len(c.buf) > 0 \/ c.closed

\* RecvOk of a channel whose close discards what is buffered: ok = false as
\* soon as the channel is closed.
RecvOkOpenOnly(c) == Len(c.buf) > 0 /\ ~c.closed

\* ok of `f, ok := <-g.ch`: a buffered task is received, also from a closed
\* channel; ok = false only when the channel is closed and empty
RecvOk(c) == Len(c.buf) > 0

\* the channel after a receive with ok = true
Recv(c) == [c EXCEPT !.buf = Tail(@)]

\* `case <-g.ctx.Done()` can proceed
DoneReady == cancelled

\* A select whose default case is missing: it waits for a case.
SelectNoDefault(ready) == FALSE

\* `default:` of a select is taken when no case can proceed (ready: some case
\* can)
SelectDefault(ready) == ~ready

\* context.Background(): never cancelled, carries no value
Background == [cancellable |-> FALSE]

\* g.ctx, the group context: the one the owner may cancel
GroupCtx == [cancellable |-> TRUE]

\* context.WithValue(parent, workerKey{}, i)
WithValue(parent, i) == [cancellable |-> parent.cancellable, workerKey |-> i]

\* func GetWorkerID(ctx) int: n, _ := ctx.Value(workerKey{}).(int), which is
\* the zero value when the context carries no worker id
GetWorkerID(ctx) == IF "workerKey" \in DOMAIN ctx THEN ctx.workerKey ELSE 0

\* The parameter sink of New (false in the tests and examples).
Sink == FALSE

\* The tasks whose body panics: every other task submitted, the first included.
Faulty == {t \in Tasks : t % 2 = 1}

\* Nothing recorded: the context is not cancelled, or the cancellation found
\* a worker outside a task body.
NoSnap == [all |-> FALSE, k |-> 0, p |-> 0]

\* What a cancellation that finds every worker inside a task body records:
\* k, the tasks then queued, and p, the tasks placed in g.ch so far.
Snapshot ==
  IF \A i \in Workers : wpc[i] = "run"
  THEN [all |-> TRUE, k |-> Len(ch.buf),
        p |-> Cardinality({t \in Tasks : tasks[t].placed = epoch})]
  ELSE NoSnap

----------------------------------------------------------------------------
Init ==
  /\ ch = MakeChan
  /\ epoch = 1
  /\ cancelled = FALSE
  /\ wg = 0
  /\ wpc = [i \in Workers |-> "idle"]
  /\ wtask = [i \in Workers |-> 0]
  /\ wid = [k \in Workers |-> 0]
  /\ wctx = [k \in Workers |-> Background]
  /\ cpc = "start"
  /\ cop = "none"
  /\ si = 0
  /\ ret = -1
  /\ fault = "none"
  /\ nextTask = 1
  /\ tasks = [t \in Tasks |-> NewTask]
  /\ busy = [p \in Callers |-> 0]
  /\ snap = NoSnap
  /\ late = [i \in Workers |-> 0]

\* The owner of the context cancels it (the group never does).
Cancel ==
  /\ ~Crashed
  /\ ~cancelled
  /\ cancelled' = TRUE
  /\ snap' = Snapshot
  /\ UNCHANGED <<ch, epoch, wg, wpc, wtask, wid, wctx, cpc, cop, si, ret, fault,
                 nextTask, tasks, busy, late>>

----------------------------------------------------------------------------
\* Admission: TryInsert, Add, Insert

\* The history record of a task as its admission call begins.
Begin == [NewTask EXCEPT !.sub = epoch]

\* success = true: the send case was chosen and f is in the queue; n is the
\* number of the next admission call
Placed(r, n) == [r EXCEPT !.st = "true", !.placed = epoch, !.at = n]

\* Add's default case: go g.Insert(f)
Detached(r) == [r EXCEPT !.st = "select", !.det = TRUE]

\* success stays false: default was taken, or the panic of the send was
\* recovered, or <-g.ctx.Done() was taken
Rejected(r) == [r EXCEPT !.st = "false"]

\* A caller that is not inside a blocking call makes the next admission call.
CanCall(p) == ~Crashed /\ busy[p] = 0 /\ nextTask <= MaxTasks

\* func (g *CoGroup) TryInsert(f) (success bool): one select with the send,
\* the Done and the default case, under a deferred recover().
TryInsert(p) ==
  /\ CanCall(p)
  /\ LET t == nextTask
         r == Begin
     IN /\ \/ /\ SendReady(ch)
              /\ ch' = Send(ch, t)
              /\ tasks' = [tasks EXCEPT ![t] = Placed(r, t + 1)]
           \/ /\ SendPanics(ch)
              /\ tasks' = [tasks EXCEPT ![t] = Rejected(r)]
              /\ UNCHANGED ch
           \/ /\ DoneReady
              /\ tasks' = [tasks EXCEPT ![t] = Rejected(r)]
              /\ UNCHANGED ch
           \/ /\ SelectDefault(SendReady(ch) \/ SendPanics(ch) \/ DoneReady)
              /\ tasks' = [tasks EXCEPT ![t] = Rejected(r)]
              /\ UNCHANGED ch
        /\ nextTask' = t + 1
  /\ UNCHANGED <<epoch, cancelled, wg, wpc, wtask, wid, wctx, cpc, cop, si, ret,
                 fault, busy, snap, late>>

\* func (g *CoGroup) Add(f): one select with the send and the default case,
\* and no recover(): the panic of a send on the closed channel is the caller's.
\* default: go g.Insert(f), a detached goroutine that has yet to run its select.
Add(p) ==
  /\ CanCall(p)
  /\ LET t == nextTask
         r == Begin
     IN /\ \/ /\ SendReady(ch)
              /\ ch' = Send(ch, t)
              /\ tasks' = [tasks EXCEPT ![t] = Placed(r, t + 1)]
              /\ UNCHANGED fault
           \/ /\ SendPanics(ch)
              /\ tasks' = [tasks EXCEPT ![t] = Rejected(r)]
              /\ fault' = "Add"
              /\ UNCHANGED ch
           \/ /\ SelectDefault(SendReady(ch) \/ SendPanics(ch))
              /\ tasks' = [tasks EXCEPT ![t] = Detached(r)]
              /\ UNCHANGED <<ch, fault>>
        /\ nextTask' = t + 1
  /\ UNCHANGED <<epoch, cancelled, wg, wpc, wtask, wid, wctx, cpc, cop, si, ret,
                 busy, snap, late>>

\* func (g *CoGroup) Insert(f) (success bool): one select with the send and
\* the Done case and no default, under a deferred recover(); it waits until
\* one of the two can proceed.  The outcome of the select for record r:
\* the channel and the record after it (n: the number of the next call).
InsertOutcome(c, r, t, n) ==
  (IF SendReady(c) THEN {[c |-> Send(c, t), r |-> Placed(r, n)]} ELSE {})
  \cup (IF SendPanics(c) \/ DoneReady THEN {[c |-> c, r |-> Rejected(r)]} ELSE {})

\* A caller calls Insert(f): the select runs, and the caller stays inside the
\* call when neither case can proceed.
InsertCall(p) ==
  /\ CanCall(p)
  /\ LET t == nextTask
         r == Begin
     IN /\ \/ \E o \in InsertOutcome(ch, r, t, t + 1) :
                /\ ch' = o.c
                /\ tasks' = [tasks EXCEPT ![t] = o.r]
                /\ UNCHANGED busy
           \/ /\ InsertOutcome(ch, r, t, t + 1) = {}
              /\ tasks' = [tasks EXCEPT ![t] = [r EXCEPT !.st = "select"]]
              /\ busy' = [busy EXCEPT ![p] = t]
              /\ UNCHANGED ch
        /\ nextTask' = t + 1
  /\ UNCHANGED <<epoch, cancelled, wg, wpc, wtask, wid, wctx, cpc, cop, si, ret,
                 fault, snap, late>>

\* The caller of Insert(f) for task t gets its result (a detached Insert has
\* no caller waiting).
Return(t) == [p \in Callers |-> IF busy[p] = t THEN 0 ELSE busy[p]]

\* The select of an Insert that waited, or of a detached `go g.Insert(f)`.
InsertSelect(t) ==
  /\ ~Crashed
  /\ tasks[t].st = "select"
  /\ \E o \in InsertOutcome(ch, tasks[t], t, nextTask) :
       /\ ch' = o.c
       /\ tasks' = [tasks EXCEPT ![t] = o.r]
  /\ busy' = Return(t)
  /\ UNCHANGED <<epoch, cancelled, wg, wpc, wtask, wid, wctx, cpc, cop, si, ret,
                 fault, nextTask, snap, late>>

----------------------------------------------------------------------------
\* Workers: start, process, run

\* g.wg.Add(1)
WgAdd(n) == n + 1

\* defer g.wg.Done()
WgDone(n) == n - 1

\* go g.process(i) inside a closure that reads the loop variable when it runs,
\* after the loop has ended (i = n).
SpawnArgAfterLoop(i) == NWorkers

\* go g.process(i): the argument is evaluated at the go statement
SpawnArg(i) == i

\* func (g *CoGroup) start(n), called once by Start / StartWithWorker on the
\* group made by New: one iteration of the loop, g.wg.Add(1); go g.process(i);
\* the call returns after the n-th.
StartSpawn ==
  /\ ~Crashed
  /\ cpc = "start"
  /\ si < NWorkers
  /\ wg' = WgAdd(wg)
  /\ wpc' = [wpc EXCEPT ![si] = "check"]
  /\ wid' = [wid EXCEPT ![si] = SpawnArg(si)]
  /\ si' = si + 1
  /\ cpc' = IF si + 1 < NWorkers THEN "start" ELSE "idle"
  /\ UNCHANGED <<ch, epoch, cancelled, wtask, wctx, cop, ret, fault, nextTask,
                 tasks, busy, snap, late>>

\* process(i) returns: the deferred g.wg.Done() runs.
Exit(i) ==
  /\ wpc' = [wpc EXCEPT ![i] = "done"]
  /\ wg' = WgDone(wg)

\* process(i) without the outer select: the loop goes straight to the inner
\* select, where a queued task and the cancellation compete.
ProcessNoCheck(i) ==
  /\ ~Crashed
  /\ wpc[i] = "check"
  /\ wpc' = [wpc EXCEPT ![i] = "recv"]
  /\ UNCHANGED <<ch, epoch, cancelled, wg, wtask, wid, wctx, cpc, cop, si, ret, fault,
                 nextTask, tasks, busy, snap, late>>

\* process(i), outer select: `case <-g.ctx.Done(): return`, else default.
ProcessCheck(i) ==
  /\ ~Crashed
  /\ wpc[i] = "check"
  /\ \/ /\ DoneReady
        /\ Exit(i)
     \/ /\ ~DoneReady
        /\ wpc' = [wpc EXCEPT ![i] = "recv"]
        /\ UNCHANGED wg
  /\ UNCHANGED <<ch, epoch, cancelled, wtask, wid, wctx, cpc, cop, si, ret, fault,
                 nextTask, tasks, busy, snap, late>>

\* The context run passes to the task body: the group context if sink, else
\* a fresh background context, with the worker id attached.
RunCtx(i) == WithValue(IF Sink THEN GroupCtx ELSE Background, i)

\* The history record of a task received by a worker.
Received(r) == [r EXCEPT !.deq = @ + 1]

\* process(i), inner select: `case f, ok := <-g.ch` (return if !ok, else
\* g.worker(g.ctx, i, f)) or `case <-g.ctx.Done(): return`.
ProcessRecv(i) ==
  /\ ~Crashed
  /\ wpc[i] = "recv"
  /\ \/ /\ RecvReady(ch)
        /\ RecvOk(ch)
        /\ LET t == Head(ch.buf)
           IN /\ ch' = Recv(ch)
              /\ wtask' = [wtask EXCEPT ![i] = t]
              /\ wctx' = [wctx EXCEPT ![i] = RunCtx(wid[i])]
              /\ tasks' = [tasks EXCEPT ![t] = Received(@)]
        /\ late' = [late EXCEPT ![i] = IF cancelled THEN @ + 1 ELSE @]
        /\ wpc' = [wpc EXCEPT ![i] = "run"]
        /\ UNCHANGED wg
     \/ /\ RecvReady(ch)
        /\ ~RecvOk(ch)
        /\ Exit(i)
        /\ UNCHANGED <<ch, wtask, wctx, tasks, late>>
     \/ /\ DoneReady
        /\ Exit(i)
        /\ UNCHANGED <<ch, wtask, wctx, tasks, late>>
  /\ UNCHANGED <<epoch, cancelled, wid, cpc, cop, si, ret, fault, nextTask, busy,
                 snap>>

\* run without its deferred recover().
RunRecoversNot == FALSE

\* run's deferred func: recover() catches the panic of the task body (and
\* prints it)
RunRecovers == TRUE

\* func (g *CoGroup) run(ctx, i, f), the default worker procedure: the task
\* body returns, or it panics and the panic is recovered; either way run
\* returns and process(i) loops.  A panic that is not recovered ends the
\* process.
Run(i) ==
  /\ ~Crashed
  /\ wpc[i] = "run"
  /\ IF wtask[i] \in Faulty /\ ~RunRecovers
     THEN /\ fault' = "run"
          /\ UNCHANGED <<tasks, wtask, wctx, wpc>>
     ELSE /\ tasks' = [tasks EXCEPT ![wtask[i]].fin = @ + 1]
          /\ wtask' = [wtask EXCEPT ![i] = 0]
          /\ wctx' = [wctx EXCEPT ![i] = Background]
          /\ wpc' = [wpc EXCEPT ![i] = "check"]
          /\ UNCHANGED fault
  /\ UNCHANGED <<ch, epoch, cancelled, wg, wid, cpc, cop, si, ret, nextTask, busy,
                 snap, late>>

----------------------------------------------------------------------------
\* Controller: Wait, Reset

\* close(g.ch): panics when the channel is closed already; op is the public
\* call made, "Wait" or "Reset" (whose first statement is g.Wait()).
Close(op) ==
  /\ ~Crashed
  /\ cpc = "idle"
  /\ \/ /\ ~ch.closed
        /\ ch' = [ch EXCEPT !.closed = TRUE]
        /\ cpc' = "wg"
        /\ cop' = op
        /\ UNCHANGED fault
     \/ /\ ch.closed
        /\ fault' = op
        /\ UNCHANGED <<ch, cpc, cop>>
  /\ UNCHANGED <<epoch, cancelled, wg, wpc, wtask, wid, wctx, si, ret, nextTask,
                 tasks, busy, snap, late>>

\* func (g *CoGroup) Wait() int, first statement
WaitCall == Close("Wait")

\* func (g *CoGroup) Reset(), first statement g.Wait()
ResetCall == epoch <= MaxResets /\ Close("Reset")

\* g.wg.Wait() left out of Wait: close(g.ch) is followed by return len(g.ch).
WgZeroNoWait == TRUE

\* g.wg.Wait() returns: the counter is zero
WgZero == wg = 0

WgWait ==
  /\ ~Crashed
  /\ cpc = "wg"
  /\ WgZero
  /\ cpc' = "len"
  /\ UNCHANGED <<ch, epoch, cancelled, wg, wpc, wtask, wid, wctx, cop, si, ret,
                 fault,
                 nextTask, tasks, busy, snap, late>>

\* cap(g.ch) written for len(g.ch).
SizeIsCap == Capacity

\* len(g.ch)
Size == Len(ch.buf)

\* return len(g.ch): Wait returns to its caller, or to Reset
WaitReturn ==
  /\ ~Crashed
  /\ cpc = "len"
  /\ ret' = Size
  /\ cpc' = IF cop = "Reset" THEN "make" ELSE "idle"
  /\ cop' = IF cop = "Reset" THEN "Reset" ELSE "none"
  /\ UNCHANGED <<ch, epoch, cancelled, wg, wpc, wtask, wid, wctx, si, fault,
                 nextTask, tasks, busy, snap, late>>

\* Reset: g.ch = make(chan func(context.Context) error, cap(g.ch))
ResetMake ==
  /\ ~Crashed
  /\ cpc = "make"
  /\ ch' = MakeChan
  /\ epoch' = epoch + 1
  /\ ret' = -1
  /\ cpc' = "idle"
  /\ cop' = "none"
  /\ UNCHANGED <<cancelled, wg, wpc, wtask, wid, wctx, si, fault, nextTask, tasks,
                 busy, snap, late>>

----------------------------------------------------------------------------
Next ==
  \/ Cancel
  \/ \E p \in Callers : TryInsert(p) \/ Add(p) \/ InsertCall(p)
  \/ \E t \in Tasks : InsertSelect(t)
  \/ StartSpawn
  \/ \E i \in Workers : ProcessCheck(i) \/ ProcessRecv(i) \/ Run(i)
  \/ WaitCall
  \/ ResetCall
  \/ WgWait
  \/ WaitReturn
  \/ ResetMake

Spec == Init /\ [][Next]_vars

\* Scheduling: the Go scheduler runs every goroutine that can take a step, so
\* a step of the group's own code that stays possible is eventually taken: the
\* select of a waiting Insert, the loop of start, the steps of a worker, and
\* the steps inside Wait and Reset.  Nothing obliges the callers to call, the
\* controller to call Wait or Reset, or the owner to cancel.
Fairness ==
  /\ \A t \in Tasks : WF_vars(InsertSelect(t))
  /\ WF_vars(StartSpawn)
  /\ \A i \in Workers :
       WF_vars(ProcessCheck(i)) /\ WF_vars(ProcessRecv(i)) /\ WF_vars(Run(i))
  /\ WF_vars(WgWait) /\ WF_vars(WaitReturn) /\ WF_vars(ResetMake)

FairSpec == Spec /\ Fairness

----------------------------------------------------------------------------
\* Properties

\* The tasks placed in the channel that g.ch is now.
Here == {t \in Tasks : tasks[t].placed = epoch}

\* How many times task t is in the queue.
InQueue(t) == Cardinality({k \in DOMAIN ch.buf : ch.buf[k] = t})

\* A Wait on the channel that g.ch is now has returned (ret is its value).
WaitReturned == ret # -1

\* C1: on the started group (the channel of New, on which start spawned the
\* workers), when Wait has returned and the context is not cancelled, Wait
\* returned 0 and every task that was placed has been received by a worker
\* exactly once and has returned exactly once.
C1_WaitDrainsAll ==
  (WaitReturned /\ epoch = 1 /\ ~cancelled) =>
     /\ ret = 0
     /\ \A t \in Tasks : tasks[t].placed = 1 =>
          tasks[t].deq = 1 /\ tasks[t].fin = 1

\* C1 witness: Wait returned 0 with as many tasks placed as the capacity, all
\* of them executed, and no cancellation.
C1_Witness ==
  /\ WaitReturned /\ epoch = 1 /\ ~cancelled /\ ret = 0
  /\ Cardinality(Here) = Capacity
  /\ \A t \in Here : tasks[t].fin = 1

\* C2: no caller of TryInsert, Add or Insert raises a panic that nobody
\* recovers.
C2_AdmissionNeverFaults == fault \notin {"TryInsert", "Add", "Insert"}

\* C3: a Wait called when an earlier Wait has closed the queue raises no
\* panic.
C3_SecondWaitSafe == fault # "Wait"

\* C4: a Wait that returns on a channel allocated by Reset, with no
\* cancellation, returns 0, and every task placed in that channel has been
\* executed (by the workers of the one start).
C4_ResetRestarts ==
  (WaitReturned /\ epoch > 1 /\ ~cancelled) =>
     /\ ret = 0
     /\ \A t \in Here : tasks[t].fin = 1

\* C5: a TryInsert that begins when the context is cancelled returns false
\* and leaves the queue as it was.
C5_TryInsertAfterCancel ==
  [][\A p \in Callers : (cancelled /\ TryInsert(p)) =>
        (tasks'[nextTask].st = "false" /\ ch'.buf = ch.buf)]_vars

\* C6: an Insert called when the context is cancelled returns false and leaves
\* the queue as it was.
C6_InsertAfterCancel ==
  [][\A p \in Callers : (cancelled /\ InsertCall(p)) =>
        (tasks'[nextTask].st = "false" /\ ch'.buf = ch.buf)]_vars

\* C7: in every step taken while g.ch is closed and not replaced, the queue
\* does not grow, and an admission that completes in the step is rejected
\* (no task becomes placed).
C7_NoAdmissionAfterClose ==
  [][(ch.closed /\ epoch' = epoch) =>
        /\ Len(ch'.buf) <= Len(ch.buf)
        /\ \A t \in Tasks :
             (tasks[t].st \in {"new", "select"} /\ tasks'[t].st # tasks[t].st)
                => tasks'[t].st = "false"]_vars

\* C7 witness: the queue is closed and never was full, the context is not
\* cancelled, no Add has panicked, and two admission calls have returned
\* false: both were rejected because the queue was closed.
C7_Witness ==
  /\ ch.closed /\ ~cancelled /\ ~Crashed
  /\ Cardinality({t \in Tasks : tasks[t].placed # 0}) < Capacity
  /\ Cardinality({t \in Tasks : tasks[t].st = "false"}) >= 2

\* C8: when Wait has returned, every task placed in the queue was either
\* received exactly once (and is no longer queued) or never received and
\* queued exactly once, and Wait returned the number of tasks placed minus
\* the number received, which is the length of the queue.
C8_WaitCountsLeftover ==
  WaitReturned =>
     /\ \A t \in Here : \/ tasks[t].deq = 1 /\ InQueue(t) = 0
                        \/ tasks[t].deq = 0 /\ InQueue(t) = 1
     /\ ret = Cardinality(Here) - Cardinality({t \in Here : tasks[t].deq > 0})
     /\ ret = Len(ch.buf)

\* C8 witness: Wait returned with a task left in the queue and another task
\* received by a worker.
C8_Witness ==
  /\ WaitReturned /\ ret > 0
  /\ \E t \in Here : tasks[t].deq = 1
  /\ \E t \in Here : tasks[t].deq = 0

\* C9: once g.wg.Wait() has returned inside Wait, and from then on, every
\* worker has left process (its wg.Done() has run) and holds no task.
C9_WaitAfterWorkers ==
  (cpc \in {"len", "make"} \/ WaitReturned \/ epoch > 1) =>
     /\ wg = 0
     /\ \A i \in Workers : wpc[i] = "done" /\ wtask[i] = 0

\* C9 witness: Wait has returned after the workers executed a task each.
C9_Witness ==
  /\ WaitReturned
  /\ Cardinality({t \in Tasks : tasks[t].fin = 1}) >= NWorkers
  /\ \A i \in Workers : wpc[i] = "done"

\* C10: a Wait that returned a non-zero value returned it under a cancelled
\* context.
C10_NonZeroMeansCancelled == (WaitReturned /\ ret > 0) => cancelled

\* C11: the panic of a task body ends neither the process nor its worker: no
\* panic of run is left unrecovered, a worker that has left process without
\* cancellation has left the queue it served closed and drained, and when Wait has
\* returned without cancellation every task placed (those queued behind a
\* panicking task included) has run.
C11_PanicIsolated ==
  /\ fault # "run"
  /\ \A i \in Workers :
       (wpc[i] = "done" /\ ~cancelled /\ epoch = 1) =>
          (ch.closed /\ Len(ch.buf) = 0)
  /\ (WaitReturned /\ epoch = 1 /\ ~cancelled) =>
        \A t \in Tasks : tasks[t].placed = 1 => tasks[t].fin = 1

\* C11 witness: without cancellation, a task whose body panics has run and a
\* task placed behind it has run after it.
C11_Witness ==
  /\ ~cancelled /\ ~Crashed
  /\ \E t \in Faulty, u \in Tasks :
       /\ t < u
       /\ tasks[t].placed = 1 /\ tasks[u].placed = 1
       /\ tasks[t].fin = 1 /\ tasks[u].fin = 1

\* The workers inside a task body.
Running == {i \in Workers : wpc[i] = "run"}

\* C16: at most n tasks are executing, and the worker id that each executing
\* task reads from its context is in 0..n-1 and differs from the id read by
\* every other executing task.
C16_WorkerIdentity ==
  /\ Cardinality({t \in Tasks : tasks[t].deq > tasks[t].fin}) <= NWorkers
  /\ \A i \in Running : GetWorkerID(wctx[i]) \in 0 .. NWorkers - 1
  /\ \A i, j \in Running :
       i # j => GetWorkerID(wctx[i]) # GetWorkerID(wctx[j])

\* C16 witness: every worker is inside a task body and a further task is
\* queued.
C16_Witness ==
  /\ Running = Workers
  /\ Len(ch.buf) > 0
  /\ {GetWorkerID(wctx[i]) : i \in Running} = 0 .. NWorkers - 1

\* C12: with no cancellation, when Wait has returned on the started group,
\* every task passed to Add has been executed exactly once, the tasks that Add
\* handed to a detached insertion included.
C12_AddedTasksRun ==
  (WaitReturned /\ epoch = 1 /\ ~cancelled /\ ~Crashed) =>
     \A t \in Tasks :
        (tasks[t].det \/ tasks[t].placed = 1) =>
           (tasks[t].deq = 1 /\ tasks[t].fin = 1)

\* The tasks of the started group that a worker has received.
Dequeued == {t \in Tasks : tasks[t].placed = 1 /\ tasks[t].deq > 0}

\* C13: when the cancellation found every worker of the started group inside
\* a task body and k tasks queued, no further task is received by a worker,
\* and a Wait that returns with no task placed since the cancellation
\* returns k.
C13_WaitReturnsQueued ==
  (snap.all /\ epoch = 1) =>
     /\ Cardinality(Dequeued) = snap.p - snap.k
     /\ (WaitReturned /\ Cardinality(Here) = snap.p) => ret = snap.k

\* C13 witness: the cancellation found every worker busy and a full queue, and
\* Wait has returned the number of tasks then queued.
C13_Witness ==
  /\ snap.all /\ epoch = 1 /\ WaitReturned
  /\ snap.k = Capacity /\ ret = snap.k
  /\ Cardinality(Here) = snap.p

\* C14: an Insert call that is waiting when the context is cancelled, or
\* after, eventually returns.
C14_BlockedInsertReturns ==
  \A p \in Callers : (cancelled /\ busy[p] # 0) ~> (busy[p] = 0)

\* C15: in every state in which a caller may make a call, TryInsert and Add
\* can each take their one step, at the end of which the caller is outside the
\* call: neither waits for a worker, a caller, Wait or the cancellation.
C15_NeverBlocks ==
  \A p \in Callers :
     CanCall(p) => /\ ENABLED (TryInsert(p) /\ busy'[p] = 0)
                   /\ ENABLED (Add(p) /\ busy'[p] = 0)

\* C15 witness: the queue is full and open, nothing is cancelled, a call made
\* on the full queue has returned (false from TryInsert, or Add detached its
\* task), and a caller can call again.
C15_Witness ==
  /\ Len(ch.buf) = Capacity /\ ~ch.closed /\ ~cancelled /\ epoch = 1
  /\ \E t \in Tasks :
       tasks[t].st = "false" \/ (tasks[t].det /\ tasks[t].st = "select")
  /\ \E p \in Callers : CanCall(p)

\* C17: after the cancellation each worker receives at most one further task,
\* and having received it never attempts another receive: it runs the task,
\* reaches the pre-check and exits.  So at most n tasks start after the
\* cancellation.
C17_OneMoreTaskEach ==
  \A i \in Workers :
     /\ late[i] <= 1
     /\ late[i] = 1 => wpc[i] \in {"run", "check", "done"}

\* C17 witness: every worker has received one task after the cancellation and
\* has exited, and a task is still queued.
C17_Witness ==
  /\ \A i \in Workers : late[i] = 1 /\ wpc[i] = "done"
  /\ Len(ch.buf) > 0

\* Task t is received by a worker no later than task u: u is not received
\* while t is not, and in the queue t is ahead of u.
ReceivedFirst(t, u) ==
  /\ tasks[u].deq > 0 => tasks[t].deq > 0
  /\ \A j, k \in DOMAIN ch.buf : (ch.buf[j] = t /\ ch.buf[k] = u) => j < k

\* Tasks t and u, submitted in this order, are both placed, in the same g.ch.
BothPlaced(t, u) ==
  t < u /\ tasks[t].placed # 0 /\ tasks[t].placed = tasks[u].placed

\* C18 as stated: of two admission calls made one after the other (the first
\* has returned before the second begins: its task was placed by then, or it
\* was an Add that handed the task to a detached insertion) whose tasks are
\* both placed, the first task is received first.
C18_SequentialCallsInOrder ==
  \A t, u \in Tasks :
     (BothPlaced(t, u) /\ (tasks[t].at <= u \/ tasks[t].det)) =>
        ReceivedFirst(t, u)

\* C18: of two admission calls whose tasks are both placed, the first task
\* being in the queue when the second call begins, the first task is received
\* first.  That is every pair of calls made one after the other except a first
\* call to Add whose detached insertion is still waiting.
C18_PlacedCallsInOrder ==
  \A t, u \in Tasks :
     (BothPlaced(t, u) /\ tasks[t].at <= u) => ReceivedFirst(t, u)

\* C18 witness: of two tasks submitted one after the other both have been
\* received, the second while the first was still running, and a detached
\* insertion of Add has placed its task too.
C18_Witness ==
  \E t, u \in Tasks :
     /\ BothPlaced(t, u) /\ tasks[t].at <= u
     /\ tasks[t].deq = 1 /\ tasks[u].deq = 1 /\ tasks[t].fin = 0
     /\ \E v \in Tasks : tasks[v].det /\ tasks[v].placed # 0

\* C19: a task is placed only in the channel that was g.ch when its admission
\* call began: no task submitted before a Reset is placed in the channel that
\* the Reset allocates.
C19_NoLeakAcrossReset ==
  \A t \in Tasks : tasks[t].placed # 0 => tasks[t].placed = tasks[t].sub

\* C20: a Wait that has closed the queue (called as Wait, or by Reset)
\* eventually returns.
C20_WaitReturns == (cpc \in {"wg", "len"}) ~> (cpc \notin {"wg", "len"})

====
